---- MODULE Spec2Model ----
(***************************************************************************)
(* Model of utils/file_utils.py: the extraction dispatcher with its Word   *)
(* fallback (process_uploaded_file and the three strategies) and the       *)
(* section parser of export_test_cases_to_excel.                           *)
(*                                                                         *)
(* A text is a sequence of one-character strings.  In the parser's input   *)
(* each of the five section names is one token: the names hold neither a   *)
(* hash nor whitespace and none is a prefix of another, so the regular     *)
(* expression can only match a name as a whole.                            *)
(***************************************************************************)
EXTENDS Integers, Sequences, FiniteSets, TLC

VARIABLES
  call,        \* which entry point runs: "process" or "export"
  file,        \* process_uploaded_file: the file behind file_path
  test_cases,  \* export_test_cases_to_excel: the list of blocks
  pc,          \* position in the running call
  log,         \* the calls and file accesses made so far, in order
  text,        \* extract_text_from_docx: local `text`
  exc,         \* the exception being handled (its message), <<>> when none
  data,        \* export_test_cases_to_excel: local `data`
  outcome,     \* "running", "ok" or "fail"
  result,      \* the value returned on success
  err          \* on failure: [kind, detail]

vars == <<call, file, test_cases, pc, log, text, exc, data, outcome, result, err>>

---------------------------------------------------------------------------
\* Bounds of the model.

MaxPages == 2
MaxParas == 2
MaxRuns == 2
MaxBlocks == 2
MaxSections == 2

---------------------------------------------------------------------------
\* Texts.

None == <<"<None>">>

WS == {" ", "\n"}

SeqsUpTo(S, n) == UNION {[1..k -> S] : k \in 0..n}

RECURSIVE LStrip(_)
LStrip(s) ==
  IF s = <<>> THEN <<>>
  ELSE IF Head(s) \in WS THEN LStrip(Tail(s)) ELSE s

RECURSIVE RStrip(_)
RStrip(s) ==
  IF s = <<>> THEN <<>>
  ELSE IF s[Len(s)] \in WS THEN RStrip(SubSeq(s, 1, Len(s) - 1)) ELSE s

\* str.strip()
Strip(s) == RStrip(LStrip(s))

\* sep.join(parts)
RECURSIVE Join(_, _)
Join(parts, sep) ==
  IF parts = <<>> THEN <<>>
  ELSE IF Len(parts) = 1 THEN parts[1]
  ELSE parts[1] \o sep \o Join(Tail(parts), sep)

\* Python truthiness of an Optional[str]
Truthy(x) == x # None /\ x # <<>>

\* `a or b`
Or(a, b) == IF Truthy(a) THEN a ELSE b

---------------------------------------------------------------------------
\* Paths and extensions.

LowerChar(c) ==
  CASE c = "P" -> "p" [] c = "D" -> "d" [] c = "F" -> "f" [] c = "O" -> "o"
    [] c = "C" -> "c" [] c = "X" -> "x" [] c = "T" -> "t" [] c = "R" -> "r"
    [] OTHER -> c

\* str.lower()
Lower(s) == [k \in 1..Len(s) |-> LowerChar(s[k])]

\* str.rfind(c), 1-based, 0 when absent
RFind(s, c) ==
  LET hits == {k \in 1..Len(s) : s[k] = c}
  IN IF hits = {} THEN 0 ELSE CHOOSE k \in hits : \A j \in hits : j <= k

\* os.path.splitext(p)[1]: the last dot of the base name starts the
\* extension, unless only dots precede it in the base name.
SplitExt(p) ==
  LET sepIndex == RFind(p, "/")
      dotIndex == RFind(p, ".")
  IN IF dotIndex > sepIndex
        /\ \E k \in (sepIndex + 1)..(dotIndex - 1) : p[k] # "."
     THEN SubSeq(p, dotIndex, Len(p))
     ELSE <<>>

ExtPdf == <<".", "p", "d", "f">>
ExtDocx == <<".", "d", "o", "c", "x">>
ExtTxt == <<".", "t", "x", "t">>

\* file_ext of process_uploaded_file
FileExt(p) == Lower(SplitExt(p))

Paths ==
  { <<"f", ".", "p", "d", "f">>,
    <<"f", ".", "P", "D", "F">>,
    <<"f", ".", "d", "o", "c", "x">>,
    <<"f", ".", "D", "o", "c", "x">>,
    <<"f", ".", "t", "x", "t">>,
    <<"f", ".", "T", "X", "T">>,
    <<"f", ".", "r", "t", "f">>,
    <<"f", ".", "t", "x", "t", ".", "R", "T", "F">>,
    <<"f">>,
    <<".", "p", "d", "f">>,
    <<"d", ".", "t", "x", "t", "/", "f">> }

---------------------------------------------------------------------------
\* The file behind file_path: what each library call finds in it.

PageTexts == {None, <<>>, <<" ", "a">>, <<"a", "\n">>}
ParaTexts == {<<>>, <<" ">>, <<"a">>, <<" ", "a">>}
RunTexts == {None, <<" ">>, <<"a">>, <<"a", " ">>}
TxtTexts == {<<>>, <<"\n">>, <<"a">>, <<" ", "a", "\n">>}

NoContent ==
  [ pdfOpens |-> FALSE, pages |-> <<>>,
    zipOk |-> FALSE, hasEntry |-> FALSE, entryReadable |-> FALSE, entryRaises |-> FALSE,
    docxLibOk |-> FALSE, paras |-> <<>>, xmlOk |-> FALSE, runs |-> <<>>,
    txtOpen |-> "io", txtOpen2 |-> FALSE, chars |-> <<>> ]

PdfContents ==
  {NoContent}
  \cup {[NoContent EXCEPT !.pdfOpens = TRUE, !.pages = ps] :
          ps \in SeqsUpTo(PageTexts, MaxPages)}

DocxContents ==
  { NoContent,
    [NoContent EXCEPT !.zipOk = TRUE],
    [NoContent EXCEPT !.zipOk = TRUE, !.hasEntry = TRUE],
    [NoContent EXCEPT !.zipOk = TRUE, !.hasEntry = TRUE, !.entryRaises = TRUE] }
  \cup {[NoContent EXCEPT !.zipOk = TRUE, !.hasEntry = TRUE, !.entryReadable = TRUE,
                          !.docxLibOk = d[1], !.paras = d[2],
                          !.xmlOk = x[1], !.runs = x[2]] :
          d \in {<<FALSE, <<>>>>} \cup ({TRUE} \X SeqsUpTo(ParaTexts, MaxParas)),
          x \in {<<FALSE, <<>>>>} \cup ({TRUE} \X SeqsUpTo(RunTexts, MaxRuns))}

TxtContents ==
  {NoContent, [NoContent EXCEPT !.txtOpen = "decode"]}
  \cup {[NoContent EXCEPT !.txtOpen = o, !.txtOpen2 = TRUE, !.chars = c] :
          o \in {"ok", "decode"}, c \in TxtTexts}

ContentsFor(ext) ==
  IF ext = ExtPdf THEN PdfContents
  ELSE IF ext = ExtDocx THEN DocxContents
  ELSE IF ext = ExtTxt THEN TxtContents
  ELSE {NoContent}

Files ==
  {[path |-> p, exists |-> FALSE, content |-> NoContent] : p \in Paths}
  \cup UNION {{[path |-> p, exists |-> TRUE, content |-> c] :
                 c \in ContentsFor(Lower(SplitExt(p)))} : p \in Paths}

NoFile == [path |-> <<>>, exists |-> FALSE, content |-> NoContent]

---------------------------------------------------------------------------
\* Messages of the exceptions; str(e) of a wrapped exception is the wrapper's
\* prefix followed by the message of the exception it wraps.

MsgWrap == "Erreur de traitement du fichier: "
MsgNotFound == "Fichier temporaire introuvable"
MsgUnsupported == "Type de fichier non supporté. Formats acceptés: PDF, DOCX, TXT"
MsgPdf == "Impossible de lire le fichier PDF: "
MsgDocx == "Impossible de lire le fichier DOCX: "
MsgTxt == "Impossible de lire le fichier texte: "
MsgBadZip == "Fichier DOCX corrompu ou invalide"
MsgFitz == "<fitz error>"
MsgZipRead == "<zipfile read error>"
MsgDocxLib == "<docx.Document error>"
MsgBackup == "<backup error>"
MsgOpen == "<open error>"

NoErr == [kind |-> "none", detail |-> <<>>]

---------------------------------------------------------------------------
\* The pure parts of the strategies.

\* extract_text_from_pdf: the text of the pages, trimmed
PdfText(f) ==
  Strip(Join([k \in 1..Len(f.content.pages) |-> Or(f.content.pages[k], <<>>)], <<>>))

\* is_valid_docx returns True: the archive opens, holds word/document.xml and
\* lets its first bytes be read
is_valid_docx(f) ==
  f.content.zipOk /\ f.content.hasEntry /\ f.content.entryReadable

\* is_valid_docx raises: the read of the entry fails with an exception that is
\* none of BadZipFile, KeyError, IOError
ValidationRaises(f) ==
  f.content.zipOk /\ f.content.hasEntry /\ ~f.content.entryReadable /\ f.content.entryRaises

\* the message of the exception backup_docx_extraction swallows, <<>> when none
BackupError(f) ==
  IF f.content.zipOk /\ f.content.hasEntry /\ f.content.entryReadable /\ f.content.xmlOk
  THEN <<>> ELSE <<MsgBackup>>

\* backup_docx_extraction
backup_docx_extraction(f) ==
  IF BackupError(f) # <<>> THEN None
  ELSE Strip(Join(SelectSeq(f.content.runs, Truthy), <<" ">>))

NonBlank(p) == Strip(p) # <<>>

\* extract_text_from_docx: "\n".join of the non-blank paragraphs
PrimaryText(f) == Join(SelectSeq(f.content.paras, NonBlank), <<"\n">>)

\* Faulty: the validation's verdict is ignored.
AfterValidationAlwaysPrimary(valid) == "docx_primary"

\* extract_text_from_docx: where the validation leads
AfterValidation(valid) == IF valid THEN "docx_primary" ELSE "docx_except"

\* Faulty: the fallback's result is dropped.
OrEmptyKeepsText(backup, t) == t

\* extract_text_from_docx: `backup_docx_extraction(file_path) or text`
OrEmpty(backup, t) == Or(backup, t)

\* Faulty: any fallback result other than None is returned.
HandlerReturnsNotNone(backup_text) == backup_text # None

\* extract_text_from_docx: `if backup_text:` of the handler
HandlerReturns(backup_text) == Truthy(backup_text)

\* Faulty: the failure reports the fallback's own error.
DocxFailDetailOfBackup(e, f) == <<MsgDocx>> \o BackupError(f)

\* extract_text_from_docx: the message of the ValueError of the handler
DocxFailDetail(e, f) == <<MsgDocx>> \o e

\* Faulty: the extension is compared as written.
StrategyCaseSensitive(p) ==
  LET e == SplitExt(p)
  IN IF e = ExtPdf THEN "pdf" ELSE IF e = ExtDocx THEN "docx"
     ELSE IF e = ExtTxt THEN "txt" ELSE "unsupported"

\* process_uploaded_file: the strategy of a path
Strategy(p) ==
  LET e == FileExt(p)
  IN IF e = ExtPdf THEN "pdf" ELSE IF e = ExtDocx THEN "docx"
     ELSE IF e = ExtTxt THEN "txt" ELSE "unsupported"

---------------------------------------------------------------------------
\* The section parser of export_test_cases_to_excel.

Titre == "Titre"
Preconditions == "Préconditions"
Donnees == "Données d'entrée"
Etapes == "Étapes"
Resultat == "Résultat attendu"

\* the alternation of section_pattern, and the keys of case_data but "ID"
Names == {Titre, Preconditions, Donnees, Etapes, Resultat}

\* `###` at position s of t
Hashes(t, s) == s + 2 <= Len(t) /\ t[s] = "#" /\ t[s + 1] = "#" /\ t[s + 2] = "#"

\* \s* from position p: the first position at or after p that holds no whitespace
RECURSIVE SkipWs(_, _)
SkipWs(t, p) == IF p <= Len(t) /\ t[p] \in WS THEN SkipWs(t, p + 1) ELSE p

\* (?=###|$): `$` without re.MULTILINE holds at the end of the text and before
\* a newline that ends the text
LookAhead(t, e) ==
  Hashes(t, e) \/ e = Len(t) + 1 \/ (e = Len(t) /\ t[e] = "\n")

\* (.*?) with re.DOTALL: the shortest content from c that the lookahead ends
RECURSIVE ContentEnd(_, _)
ContentEnd(t, c) == IF LookAhead(t, c) THEN c ELSE ContentEnd(t, c + 1)

\* section_pattern matched at position s.  `\s*` is greedy and the name is no
\* whitespace, so the name follows the whole run of whitespace; `\s*\n` gives
\* back whitespace up to the last newline of the run that follows the name.
MatchAt(t, s) ==
  LET j == SkipWs(t, s + 3)
      k == SkipWs(t, j + 1)
      nls == {q \in (j + 1)..(k - 1) : t[q] = "\n"}
      c == 1 + CHOOSE q \in nls : \A r \in nls : r <= q
  IN IF Hashes(t, s) /\ j <= Len(t) /\ t[j] \in Names /\ nls # {}
     THEN [ok |-> TRUE, at |-> s, name |-> t[j], from |-> c, to |-> ContentEnd(t, c)]
     ELSE [ok |-> FALSE, at |-> s, name |-> "", from |-> s, to |-> s]

\* the matches of section_pattern in t from position p on, left to right,
\* each search starting where the previous match ended
RECURSIVE Matches(_, _)
Matches(t, p) ==
  IF p > Len(t) THEN <<>>
  ELSE LET m == MatchAt(t, p)
       IN IF m.ok THEN <<m>> \o Matches(t, m.to) ELSE Matches(t, p + 1)

\* section_pattern.findall(test_case): the (section_name, content) pairs
FindAll(t) ==
  LET ms == Matches(t, 1)
  IN [k \in 1..Len(ms) |->
        [name |-> ms[k].name, content |-> SubSeq(t, ms[k].from, ms[k].to - 1)]]

\* the loop over `sections`: each section's trimmed content is stored under
\* its name, a later one replacing an earlier one
RECURSIVE Assign(_, _)
Assign(fields, sections) ==
  IF sections = <<>> THEN fields
  ELSE Assign([fields EXCEPT ![Head(sections).name] = Strip(Head(sections).content)],
              Tail(sections))

\* Faulty: the index starts at 0.
MakeIdFromZero(i) == <<"TEST-", i - 1>>

\* f"TEST-{i}"
MakeId(i) == <<"TEST-", i>>

\* one pass of the loop body: case_data of the i-th block
CaseData(i, test_case) ==
  [ID |-> MakeId(i), fields |-> Assign([n \in Names |-> <<>>], FindAll(test_case))]

\* Faulty: the emptiness check is missing.
NoEmptyCheck(cases) == FALSE

\* `if not test_cases:`
NothingToExport(cases) == cases = <<>>

MsgExport == "Erreur lors de la génération des cas de test: "
MsgNoCases == "Aucun cas de test à exporter"
MsgWriter == "<writer error>"

---------------------------------------------------------------------------
\* The blocks given to export_test_cases_to_excel.

\* a marker line as the generator of the blocks writes it
MarkerLine(name) == <<"#", "#", "#", " ", name, "\n">>

\* a block written section by section
RECURSIVE Render(_)
Render(layout) ==
  IF layout = <<>> THEN <<>>
  ELSE MarkerLine(Head(layout)[1]) \o Head(layout)[2] \o Render(Tail(layout))

Letter(name) ==
  CASE name = Titre -> "t" [] name = Preconditions -> "p" [] name = Donnees -> "d"
    [] name = Etapes -> "e" [] OTHER -> "r"

PlainBody(name) == <<" ", Letter(name), "\n">>

\* bodies that hold hashes: inside a line, as a deeper heading, and as a
\* heading whose name is none of the five
HashBodies ==
  { <<"a", " ", "#", "#", "#", " ", "b", "\n">>,
    <<"a", "\n", "#", "#", "#", "#", " ", "b", "\n">>,
    <<"a", "\n", "#", "#", "#", " ", "b", "\n">> }

Bodies == {<<>>, <<"a", "\n", "\n">>, <<" ", "a", " ", "b">>}

Permutations5 == {p \in [1..5 -> Names] : \A i, j \in 1..5 : p[i] = p[j] => i = j}

\* the five sections in every order, at most one of them with hashes in its body
AllFiveBlocks ==
  {Render([k \in 1..5 |-> <<p[k], PlainBody(p[k])>>]) : p \in Permutations5}
  \cup {Render([k \in 1..5 |-> <<p[k], IF p[k] = n THEN b \o PlainBody(n)
                                                   ELSE PlainBody(p[k])>>]) :
          p \in Permutations5, n \in Names, b \in HashBodies}

\* up to MaxSections sections, names repeated or not
SectionBlocks ==
  {Render(l) : l \in SeqsUpTo(Names \X (Bodies \cup {<<"a", " ", "#", "#", "#", "\n">>}),
                              MaxSections)}

\* blocks written otherwise: no marker, a marker the pattern does not take,
\* markers with other spacing, a marker inside a line
OtherBlocks ==
  { <<>>,
    <<"a", " ", "b", "\n">>,
    <<"#", "#", "#", " ", Titre>>,
    <<"#", "#", "#", " ", Titre, " ", "a", "\n", "b">>,
    <<"#", "#", " ", Titre, "\n", "a">>,
    <<"#", "#", "#", Etapes, " ", "\n", " ", "\n", " ", "a", "#", "#", "#", "\n", Titre, "\n">>,
    <<"a", " ", "#", "#", "#", " ", Resultat, "\n", "b", "\n">>,
    <<"#", "#", "#", " ", Titre, "\n", "a", "\n", "#", "#", "#", " ", Titre, "\n", "b">> }

\* the lists of blocks
Inputs ==
  SeqsUpTo(OtherBlocks, MaxBlocks)
  \cup {<<b>> : b \in AllFiveBlocks \cup SectionBlocks}

---------------------------------------------------------------------------
\* The state machine: one call of process_uploaded_file or of
\* export_test_cases_to_excel, step by step.

Init ==
  /\ \/ call = "process" /\ file \in Files /\ test_cases = <<>> /\ pc = "p_start"
     \/ call = "export" /\ file = NoFile /\ test_cases \in Inputs /\ pc = "e_start"
  /\ log = <<>>
  /\ text = <<>>
  /\ exc = <<>>
  /\ data = <<>>
  /\ outcome = "running"
  /\ result = <<>>
  /\ err = NoErr

\* `return t` leaving the call
Succeed(t) ==
  /\ outcome' = "ok"
  /\ result' = t
  /\ err' = NoErr
  /\ pc' = "done"

\* process_uploaded_file's handler: every exception leaves as a ValueError
\* whose message is MsgWrap followed by the message of the exception
FailWrapped(kind, detail) ==
  /\ outcome' = "fail"
  /\ result' = <<>>
  /\ err' = [kind |-> kind, detail |-> <<MsgWrap>> \o detail]
  /\ pc' = "done"

\* os.path.exists
CheckExists ==
  /\ pc = "p_start"
  /\ log' = Append(log, "exists")
  /\ IF file.exists
     THEN pc' = "p_dispatch" /\ UNCHANGED <<outcome, result, err>>
     ELSE FailWrapped("IOFailure", <<MsgNotFound>>)
  /\ UNCHANGED <<call, file, test_cases, text, exc, data>>

\* the if/elif chain on file_ext
Dispatch ==
  /\ pc = "p_dispatch"
  /\ LET st == Strategy(file.path)
     IN IF st = "unsupported"
        THEN FailWrapped("UnsupportedFormat", <<MsgUnsupported>>) /\ UNCHANGED log
        ELSE /\ pc' = st
             /\ log' = Append(log, st)
             /\ UNCHANGED <<outcome, result, err>>
  /\ UNCHANGED <<call, file, test_cases, text, exc, data>>

\* extract_text_from_pdf
ExtractPdf ==
  /\ pc = "pdf"
  /\ log' = Append(log, "fitz.open")
  /\ IF file.content.pdfOpens
     THEN Succeed(PdfText(file))
     ELSE FailWrapped("CorruptFile", <<MsgPdf, MsgFitz>>)
  /\ UNCHANGED <<call, file, test_cases, text, exc, data>>

\* extract_text_from_docx: the call of is_valid_docx and the raise of BadZipFile
DocxValidate ==
  /\ pc = "docx"
  /\ log' = Append(log, "is_valid_docx")
  /\ IF ValidationRaises(file)
     THEN pc' = "docx_except" /\ exc' = <<MsgZipRead>>
     ELSE /\ pc' = AfterValidation(is_valid_docx(file))
          /\ exc' = IF is_valid_docx(file) THEN <<>> ELSE <<MsgBadZip>>
  /\ UNCHANGED <<call, file, test_cases, text, data, outcome, result, err>>

\* extract_text_from_docx: docx.Document, the join of the paragraphs and the
\* return of a text that is not blank
DocxPrimary ==
  /\ pc = "docx_primary"
  /\ log' = Append(log, "docx.Document")
  /\ IF file.content.docxLibOk
     THEN /\ text' = PrimaryText(file)
          /\ exc' = exc
          /\ IF Strip(PrimaryText(file)) = <<>>
             THEN pc' = "docx_empty" /\ UNCHANGED <<outcome, result, err>>
             ELSE Succeed(Strip(PrimaryText(file)))
     ELSE /\ exc' = <<MsgDocxLib>>
          /\ pc' = "docx_except"
          /\ UNCHANGED <<text, outcome, result, err>>
  /\ UNCHANGED <<call, file, test_cases, data>>

\* extract_text_from_docx: the fallback of a blank document and the return
DocxEmpty ==
  /\ pc = "docx_empty"
  /\ log' = Append(log, "backup_docx_extraction")
  /\ text' = OrEmpty(backup_docx_extraction(file), text)
  /\ Succeed(Strip(OrEmpty(backup_docx_extraction(file), text)))
  /\ UNCHANGED <<call, file, test_cases, exc, data>>

\* extract_text_from_docx: the exception handler
DocxExcept ==
  /\ pc = "docx_except"
  /\ log' = Append(log, "backup_docx_extraction")
  /\ IF HandlerReturns(backup_docx_extraction(file))
     THEN Succeed(backup_docx_extraction(file))
     ELSE FailWrapped("CorruptFile", DocxFailDetail(exc, file))
  /\ UNCHANGED <<call, file, test_cases, text, exc, data>>

\* extract_text_from_txt: the read as UTF-8
TxtUtf8 ==
  /\ pc = "txt"
  /\ log' = Append(log, "open utf-8")
  /\ CASE file.content.txtOpen = "ok" -> Succeed(file.content.chars)
       [] file.content.txtOpen = "decode" ->
            pc' = "txt_latin1" /\ UNCHANGED <<outcome, result, err>>
       [] OTHER -> FailWrapped("IOFailure", <<MsgOpen>>)
  /\ UNCHANGED <<call, file, test_cases, text, exc, data>>

\* extract_text_from_txt: the read as Latin-1 after a UnicodeDecodeError
TxtLatin1 ==
  /\ pc = "txt_latin1"
  /\ log' = Append(log, "open latin-1")
  /\ IF file.content.txtOpen2
     THEN Succeed(file.content.chars)
     ELSE FailWrapped("CorruptFile", <<MsgTxt, MsgOpen>>)
  /\ UNCHANGED <<call, file, test_cases, text, exc, data>>

\* export_test_cases_to_excel: the emptiness check
ExportCheck ==
  /\ pc = "e_start"
  /\ IF NothingToExport(test_cases)
     THEN /\ outcome' = "fail"
          /\ err' = [kind |-> "NoData", detail |-> <<MsgExport, MsgNoCases>>]
          /\ pc' = "done"
     ELSE pc' = "e_loop" /\ UNCHANGED <<outcome, err>>
  /\ UNCHANGED <<call, file, test_cases, log, text, exc, data, result>>

\* export_test_cases_to_excel: one pass of the loop over test_cases
ParseBlock ==
  /\ pc = "e_loop"
  /\ Len(data) < Len(test_cases)
  /\ data' = Append(data, CaseData(Len(data) + 1, test_cases[Len(data) + 1]))
  /\ UNCHANGED <<call, file, test_cases, pc, log, text, exc, outcome, result, err>>

\* export_test_cases_to_excel: the rows handed to pandas and xlsxwriter, which
\* write them or raise
WriteSheet ==
  /\ pc = "e_loop"
  /\ Len(data) = Len(test_cases)
  /\ \/ Succeed(data)
     \/ /\ outcome' = "fail"
        /\ err' = [kind |-> "Writer", detail |-> <<MsgExport, MsgWriter>>]
        /\ pc' = "done"
        /\ UNCHANGED result
  /\ UNCHANGED <<call, file, test_cases, log, text, exc, data>>

Next ==
  \/ CheckExists
  \/ Dispatch
  \/ ExtractPdf
  \/ DocxValidate
  \/ DocxPrimary
  \/ DocxEmpty
  \/ DocxExcept
  \/ TxtUtf8
  \/ TxtLatin1
  \/ ExportCheck
  \/ ParseBlock
  \/ WriteSheet

Spec == Init /\ [][Next]_vars

---------------------------------------------------------------------------
\* What the properties below speak of.

Done == pc = "done"

Count(sq, x) == Cardinality({k \in 1..Len(sq) : sq[k] = x})

Logged(x) == Count(log, x) > 0

IsStrategy(x) == x \in {"pdf", "docx", "txt"}

\* the steps that open the file
IsRead(x) ==
  x \in {"fitz.open", "is_valid_docx", "docx.Document", "backup_docx_extraction",
         "open utf-8", "open latin-1"}

\* no leading and no trailing whitespace
Trimmed(t) == t = <<>> \/ (t[1] \notin WS /\ t[Len(t)] \notin WS)

\* the validation of the Word file has run and has failed: is_valid_docx
\* has returned False
ValidationFailed ==
  /\ call = "process" /\ Logged("is_valid_docx")
  /\ ~is_valid_docx(file) /\ ~ValidationRaises(file)

\* a marker line starts at s: s starts a line and holds ###, blanks, a section name
MarkerLineAt(t, s) ==
  /\ s = 1 \/ t[s - 1] = "\n"
  /\ Hashes(t, s)
  /\ \E j \in (s + 3)..Len(t) :
       /\ t[j] \in Names
       /\ \A q \in (s + 3)..(j - 1) : t[q] = " "

\* the name of the marker line that starts at s
MarkerName(t, s) == t[CHOOSE j \in (s + 3)..Len(t) : t[j] \in Names]

MarkerLines(t) == {s \in 1..Len(t) : MarkerLineAt(t, s)}

\* the first position after the line that starts at s
RECURSIVE LineEnd(_, _)
LineEnd(t, s) ==
  IF s > Len(t) THEN s ELSE IF t[s] = "\n" THEN s + 1 ELSE LineEnd(t, s + 1)

\* the start of the first marker line at or after position c, or the end of the block
NextMarkerLine(t, c) ==
  LET later == {s \in MarkerLines(t) : s >= c}
  IN IF later = {} THEN Len(t) + 1 ELSE CHOOSE s \in later : \A r \in later : s <= r

\* the trimmed body of the marker line that starts at s
BodyOfMarkerLine(t, s) ==
  Strip(SubSeq(t, LineEnd(t, s), NextMarkerLine(t, LineEnd(t, s)) - 1))

\* each of the five names has exactly one marker line in t
EachMarkerOnce(t) ==
  \A n \in Names : Cardinality({s \in MarkerLines(t) : MarkerName(t, s) = n}) = 1

\* the pattern recognises no section in t
ZeroMarkers(t) == \A s \in 1..Len(t) : ~MatchAt(t, s).ok

---------------------------------------------------------------------------
\* C1: the loop builds one record per block, in the order of the blocks; the
\* n-th record is made from the n-th block and its ID is TEST-n; a block in
\* which no section is recognised gives five empty fields; the loop is left
\* only with as many records as blocks.
C1_OneRecordPerBlock ==
  call = "export" =>
    /\ Len(data) <= Len(test_cases)
    /\ \A n \in 1..Len(data) :
         /\ data[n].ID = <<"TEST-", n>>
         /\ data[n].fields = Assign([f \in Names |-> <<>>], FindAll(test_cases[n]))
         /\ ZeroMarkers(test_cases[n]) => \A f \in Names : data[n].fields[f] = <<>>
    /\ (Done /\ test_cases # <<>>) => Len(data) = Len(test_cases)
    /\ (Done /\ outcome = "ok") => result = data

C1_Witness ==
  /\ call = "export" /\ Done /\ outcome = "ok"
  /\ Len(data) = 2
  /\ ZeroMarkers(test_cases[1]) /\ ~ZeroMarkers(test_cases[2])
  /\ data[2].ID = <<"TEST-", 2>>

\* C2 as claimed: the parser never fails, and no blocks give no records.
C2_ParserNeverFails ==
  call = "export" =>
    /\ outcome = "fail" => err.kind = "Writer"
    /\ (Done /\ test_cases = <<>>) => (outcome = "ok" /\ result = <<>>)

\* C2 amended: with at least one block the loop cannot fail: a failure comes
\* from the writer, after every block has its record; with no block the call
\* fails with "Aucun cas de test à exporter" before any record is built.
C2_FailsOnlyOnNoBlocks ==
  call = "export" =>
    /\ (test_cases # <<>> /\ outcome = "fail") =>
         (err.kind = "Writer" /\ Len(data) = Len(test_cases))
    /\ (test_cases = <<>> /\ Done) =>
         /\ outcome = "fail"
         /\ err = [kind |-> "NoData", detail |-> <<MsgExport, MsgNoCases>>]
         /\ data = <<>>

C2_Witness == call = "export" /\ Done /\ test_cases = <<>> /\ outcome = "fail"

\* C3 as claimed: after a failed validation neither the primary extraction
\* nor the fallback is invoked, and the call fails with CorruptFile.
C3_FailsImmediately ==
  ValidationFailed =>
    /\ ~Logged("docx.Document")
    /\ ~Logged("backup_docx_extraction")
    /\ Done => (outcome = "fail" /\ err.kind = "CorruptFile")

\* C3 amended: after a failed validation the primary extraction is never
\* invoked; the fallback is invoked once, and when it gives no text the call
\* fails with CorruptFile and the validation's message.
C3_NoPrimaryAfterFailedValidation ==
  ValidationFailed =>
    /\ ~Logged("docx.Document")
    /\ Done =>
         /\ Count(log, "backup_docx_extraction") = 1
         /\ ~Truthy(backup_docx_extraction(file)) =>
              /\ outcome = "fail"
              /\ err = [kind |-> "CorruptFile", detail |-> <<MsgWrap, MsgDocx, MsgBadZip>>]

C3_Witness ==
  /\ ValidationFailed /\ Done
  /\ file.content.zipOk /\ ~file.content.hasEntry
  /\ outcome = "fail"

\* the try block was left by an exception: the validation failed or raised,
\* or docx.Document raised
PrimaryThrew ==
  \/ call = "process" /\ Logged("is_valid_docx") /\ ~is_valid_docx(file)
  \/ Logged("docx.Document") /\ ~file.content.docxLibOk

\* the fallback ran and gave no text
FallbackGaveNothing ==
  call = "process" /\ Done /\ Logged("backup_docx_extraction")
  /\ ~Truthy(backup_docx_extraction(file))

\* C4 as claimed: a fallback that gives no text always ends the call in a
\* CorruptFile failure.
C4_NoTextAlwaysFails ==
  FallbackGaveNothing => (outcome = "fail" /\ err.kind = "CorruptFile")

\* C4 amended: a fallback that gives no text ends the call in a CorruptFile
\* failure when the primary extraction threw, and in the success value ""
\* when the primary extraction returned a blank text.
C4_NoTextFailsAfterError ==
  FallbackGaveNothing =>
    IF PrimaryThrew
    THEN outcome = "fail" /\ err.kind = "CorruptFile"
    ELSE outcome = "ok" /\ result = <<>>

C4_Witness ==
  /\ FallbackGaveNothing
  /\ is_valid_docx(file) /\ ~file.content.docxLibOk
  /\ backup_docx_extraction(file) = <<>>
  /\ outcome = "fail"

\* C5: a valid Word file whose paragraphs give a blank text has the fallback
\* invoked, and a fallback text that is not empty is the value returned.
C5_BlankPrimaryReturnsFallback ==
  (/\ call = "process" /\ Done /\ Logged("docx.Document")
   /\ file.content.docxLibOk
   /\ Strip(PrimaryText(file)) = <<>>) =>
     /\ Count(log, "backup_docx_extraction") = 1
     /\ Truthy(backup_docx_extraction(file)) =>
          (outcome = "ok" /\ result = backup_docx_extraction(file))

C5_Witness ==
  /\ call = "process" /\ Done /\ Logged("docx.Document")
  /\ file.content.docxLibOk
  /\ file.content.paras = <<<<" ">>>>
  /\ PrimaryText(file) = <<>>
  /\ result = <<"a", " ", "a">>

\* C6: past the dispatch, an existing file whose lower-cased extension is
\* none of the three has had no strategy invoked and no read made, and its
\* call has failed with UnsupportedFormat; a file with one of the three, in
\* any letter case, has had that strategy invoked and no other.
C6_DispatchByLowerCasedExtension ==
  (call = "process" /\ file.exists /\ pc \notin {"p_start", "p_dispatch"}) =>
    LET e == Lower(SplitExt(file.path))
    IN IF e \notin {ExtPdf, ExtDocx, ExtTxt}
       THEN /\ log = <<"exists">>
            /\ SelectSeq(log, IsStrategy) = <<>> /\ SelectSeq(log, IsRead) = <<>>
            /\ outcome = "fail" /\ err.kind = "UnsupportedFormat"
       ELSE /\ SelectSeq(log, IsStrategy) =
                 <<IF e = ExtPdf THEN "pdf" ELSE IF e = ExtDocx THEN "docx" ELSE "txt">>
            /\ err.kind # "UnsupportedFormat"

C6_Witness ==
  /\ call = "process" /\ Done /\ file.exists
  /\ SplitExt(file.path) = <<".", "P", "D", "F">>
  /\ SelectSeq(log, IsStrategy) = <<"pdf">>

\* C7: in a block where each of the five markers has exactly one marker
\* line, every field holds the trimmed body of its own marker line, whatever
\* the order of the sections.
C7_FieldsOfOwnMarkers ==
  (call = "export" /\ Done /\ outcome = "ok") =>
    \A n \in 1..Len(test_cases) :
      EachMarkerOnce(test_cases[n]) =>
        \A s \in MarkerLines(test_cases[n]) :
          data[n].fields[MarkerName(test_cases[n], s)] = BodyOfMarkerLine(test_cases[n], s)

\* C8: the value stored for a recognised section is the trimmed text from
\* the end of its marker line to the next marker line or the end of the block
\* (for a name recognised more than once, the last one's).
C8_BodyRunsToNextMarkerLine ==
  (call = "export" /\ Done /\ outcome = "ok") =>
    \A n \in 1..Len(test_cases) :
      LET t == test_cases[n]
          ms == Matches(t, 1)
      IN \A k \in 1..Len(ms) :
           (\A later \in (k + 1)..Len(ms) : ms[later].name # ms[k].name) =>
             data[n].fields[ms[k].name] =
               Strip(SubSeq(t, ms[k].from, NextMarkerLine(t, ms[k].from) - 1))

\* C9: the fallback is invoked at most once in a call, and a call that fails
\* after the fallback reports the message of the error that led to the
\* fallback, not the fallback's own.
C9_FallbackOnceOriginalMessage ==
  call = "process" =>
    /\ Count(log, "backup_docx_extraction") <= 1
    /\ (Done /\ outcome = "fail" /\ Logged("backup_docx_extraction")) =>
         /\ err.detail =
              <<MsgWrap, MsgDocx,
                IF is_valid_docx(file) THEN MsgDocxLib
                ELSE IF ValidationRaises(file) THEN MsgZipRead ELSE MsgBadZip>>
         /\ Count(err.detail, MsgBackup) = 0

C9_Witness ==
  /\ call = "process" /\ Done /\ outcome = "fail"
  /\ is_valid_docx(file) /\ Logged("docx.Document")
  /\ Count(log, "backup_docx_extraction") = 1
  /\ ~file.content.xmlOk

\* C10: every text process_uploaded_file returns has no leading and no
\* trailing whitespace.
C10_ReturnedTextTrimmed ==
  (call = "process" /\ outcome = "ok") => Trimmed(result)

====
